---- MODULE Spec2Model ----
(***************************************************************************)
(* State-machine model of hf-space-clip-service/app.py: the process-wide   *)
(* ModelState (model, processor, device), the startup hook load_model and  *)
(* the request handlers root, health_check, embed_text, embed_image and    *)
(* test_page.                                                              *)
(*                                                                         *)
(* Two specifications are given.  Spec is the process as started by        *)
(* uvicorn.run(app): the startup hook runs first and requests are only     *)
(* dispatched once it has returned.  SpecApp is the bare application       *)
(* object: load_model and the handlers are coroutines that a caller (an    *)
(* in-process client that does not run the startup hooks) may invoke in    *)
(* any order, so the handlers are also exercised on a ModelState that is   *)
(* not loaded or only partly loaded.                                       *)
(***************************************************************************)
EXTENDS Integers, Sequences, FiniteSets, TLC

VARIABLES model, processor, device, lpc, lstep, loadError, loads, phase,
          req, resp

\* model, processor, device : the module globals of lines 44-46.
\* lpc, lstep   : where load_model is: "idle" (not entered), "try" at
\*                statement lstep of the try block, "except", "returned",
\*                "raised" (the error left the coroutine).
\* loadError    : the statement whose exception the except clause caught.
\* loads        : how many times load_model has been entered.
\* phase        : "startup", "serving" or "aborted" for the uvicorn process;
\*                "imported" for the bare application object.
\* req, resp    : the last request handled and its outcome.
vars == <<model, processor, device, lpc, lstep, loadError, loads, phase,
          req, resp>>

\* ------------------------------------------------------------------ bounds
MaxData == 3      \* base64 alphabet characters in an image payload
MaxPad == 2       \* '=' characters in an image payload
MaxDim == 2       \* length of the feature vector the model returns
MaxLoads == 1     \* invocations of load_model on the bare application object

\* --------------------------------------------------------------- constants
None == "None"
ModelName == "openai/clip-vit-base-patch32"
Devices == {"cuda", "cpu"}
Msgs == {"out of memory", "connection error"}
Texts == {"", "a photo of a dog"}
FeatureVals == {0, 1}

\* ------------------------------------------------------------- load_model
\* The statements of the try block of load_model, in program order:
\*   79 device = ...   86 processor = ...   87 model = ....to(device)
\*   88 model.eval()   90-92 logging (91 walks model.parameters())
LoadOrder_modelFirst == <<"device", "model", "processor", "eval", "log">>
LoadOrder == <<"device", "processor", "model", "eval", "log">>

\* What the except clause of load_model does after logging the error.
load_model_except_swallow == "return"
load_model_except == "raise"

\* The coroutine is entered: the try block starts at its first statement.
EnterLoad ==
    /\ lpc' = "try"
    /\ lstep' = 1
    /\ loadError' = None
    /\ loads' = loads + 1

\* One statement of the try block completes normally.
load_model_step ==
    /\ lpc = "try"
    /\ lstep <= Len(LoadOrder)
    /\ LET s == LoadOrder[lstep] IN
         /\ \E d \in Devices :
               device' = IF s = "device" THEN d ELSE device
         /\ processor' = IF s = "processor" THEN "CLIPProcessor" ELSE processor
         /\ model' = IF s = "model" THEN "CLIPModel" ELSE model
    /\ lstep' = lstep + 1
    /\ lpc' = IF lstep = Len(LoadOrder) THEN "returned" ELSE "try"
    /\ UNCHANGED <<loadError, loads, phase, req, resp>>

\* One statement of the try block raises: nothing is assigned by it and
\* control passes to the except clause.  loadError names the statement.
load_model_fail ==
    /\ lpc = "try"
    /\ lstep <= Len(LoadOrder)
    /\ loadError' = LoadOrder[lstep]
    /\ lpc' = "except"
    /\ UNCHANGED <<model, processor, device, lstep, loads, phase,
                   req, resp>>

\* The except clause: log the error, then re-raise it.
load_model_handler ==
    /\ lpc = "except"
    /\ lpc' = IF load_model_except = "raise" THEN "raised" ELSE "returned"
    /\ UNCHANGED <<model, processor, device, lstep, loadError, loads, phase,
                   req, resp>>


\* ------------------------------------------------------- values and inputs
\* An image payload (request.image), described by what base64.b64decode
\* looks at: the number of alphabet characters, the number of '=' after
\* them, and what else occurs in the string (nothing, other ASCII
\* characters, or a non-ASCII character); kind says what the encoded bytes
\* are: an image, an image whose pixel data is cut short, or no image.
Kinds == {"rgb", "truncated", "noimage"}
Extras == {"none", "junk", "nonascii"}
Payloads == [ndata : 0..MaxData, npad : 0..MaxPad, extra : Extras, kind : Kinds]
NoPayload == [ndata |-> 0, npad |-> 0, extra |-> "none", kind |-> "noimage"]

\* What the external collaborators do during one request: the stage that
\* raises (if any) with its message, and the raw features the model returns.
Stages == {"preprocess", "invoke", "normalize"}
Features == UNION {[1..n -> FeatureVals] : n \in 1..MaxDim}
Envs == {[fault |-> "none", msg |-> "", feats |-> f] : f \in Features}
        \cup {[fault |-> s, msg |-> m, feats |-> <<>>] : s \in Stages, m \in Msgs}
QuietEnv == CHOOSE e \in Envs : e.fault = "none"

\* The collaborators' behaviour matters only to a call that gets as far as
\* the preprocessor; r is the call's outcome under QuietEnv.
EnvsReached(r) ==
    IF \E k \in 1..Len(r.steps) : r.steps[k] = "preprocess"
    THEN Envs
    ELSE {QuietEnv}

NoReq == [op |-> "none", text |-> "", image |-> NoPayload]
TextReq(t) == [op |-> "embed_text", text |-> t, image |-> NoPayload]
ImageReq(i) == [op |-> "embed_image", text |-> "", image |-> i]
PlainReq(o) == [op |-> o, text |-> "", image |-> NoPayload]

\* Outcomes of a handler call: a returned body (200), a raised
\* HTTPException, or another exception leaving the handler.  health is the
\* HealthResponse body, NoHealth for every handler but health_check.
NoHealth == [status |-> "none", model_loaded |-> FALSE, device |-> "",
             model_name |-> ""]
NoResp == [outcome |-> "none", status |-> 0, detail |-> <<>>, steps |-> <<>>,
           embedding |-> <<>>, dimensions |-> 0, health |-> NoHealth]
Return(e, n, st) == [outcome |-> "return", status |-> 200, detail |-> <<>>,
                     steps |-> st, embedding |-> e, dimensions |-> n,
                     health |-> NoHealth]
ReturnHealth(h) == [outcome |-> "return", status |-> 200, detail |-> <<>>,
                    steps |-> <<>>, embedding |-> <<>>, dimensions |-> 0,
                    health |-> h]
HTTPException(code, det, st) == [outcome |-> "HTTPException", status |-> code,
                                 detail |-> det, steps |-> st,
                                 embedding |-> <<>>, dimensions |-> 0,
                                 health |-> NoHealth]
Escapes(det, st) == [outcome |-> "Exception", status |-> 0, detail |-> det,
                     steps |-> st, embedding |-> <<>>, dimensions |-> 0,
                     health |-> NoHealth]

\* The result of a block of statements: raised with a message, or a value.
Raised(m, st) == [raised |-> TRUE, msg |-> m, steps |-> st, value |-> <<>>]
Value(v, st) == [raised |-> FALSE, msg |-> "", steps |-> st, value |-> v]

\* ---------------------------------------------------------------- helpers
RECURSIVE SumSq(_)
SumSq(f) == IF f = <<>> THEN 0 ELSE Head(f) * Head(f) + SumSq(Tail(f))

\* features / features.norm(dim=-1, keepdim=True): component i is
\* f[i] / sqrt(SumSq(f)), kept as the pair <<f[i], SumSq(f)>>; a zero norm
\* gives 0/0 in every component and raises nothing.
Normalize(f) == [i \in 1..Len(f) |-> <<f[i], SumSq(f)>>]

\* base64.b64decode(s) with validate left at its default: a non-ASCII
\* character is a ValueError, other non-alphabet characters are discarded,
\* and then the padding is checked against the number of data characters.
\* The decoded length is 3 bytes per 4 data characters, rounded down.
b64decode(s) ==
    IF s.extra = "nonascii"
    THEN Raised("string argument should contain only ASCII characters",
                <<"b64decode">>)
    ELSE IF s.ndata % 4 = 1
    THEN Raised("Invalid base64-encoded string", <<"b64decode">>)
    ELSE IF \/ (s.ndata % 4 = 2 /\ s.npad < 2)
            \/ (s.ndata % 4 = 3 /\ s.npad < 1)
    THEN Raised("Incorrect padding", <<"b64decode">>)
    ELSE Value([len |-> (s.ndata * 3) \div 4, kind |-> s.kind], <<"b64decode">>)

\* Image.open(io.BytesIO(image_bytes)).convert('RGB')
open_convert(bytes, st) ==
    IF bytes.len = 0 \/ bytes.kind = "noimage"
    THEN Raised("cannot identify image file", st \o <<"open">>)
    ELSE IF bytes.kind = "truncated"
    THEN Raised("image file is truncated", st \o <<"open", "convert">>)
    ELSE Value("RGB", st \o <<"open", "convert">>)

\* The inner try block of embed_image.
decode_image(image) ==
    LET b == b64decode(image) IN
      IF b.raised THEN b ELSE open_convert(b.value, b.steps)

\* --------------------------------------------------------------- handlers
\* The readiness guards (lines 133 and 179): TRUE when the handler answers
\* 503 without going further.
embed_text_guard_and(m, p) == m = None /\ p = None
embed_text_guard(m, p) == m = None \/ p = None

embed_image_guard_and(m, p) == m = None /\ p = None
embed_image_guard(m, p) == m = None \/ p = None

\* The with-block of embed_text: processor(...).to(device),
\* model.get_text_features, the division by the norm, tolist().
text_pipeline(m, p, d, text, env) ==
    IF p = None
    THEN Raised("'NoneType' object is not callable", <<"preprocess">>)
    ELSE IF env.fault = "preprocess"
    THEN Raised(env.msg, <<"preprocess">>)
    ELSE IF m = None
    THEN Raised("'NoneType' object has no attribute 'get_text_features'",
                <<"preprocess", "invoke">>)
    ELSE IF env.fault = "invoke"
    THEN Raised(env.msg, <<"preprocess", "invoke">>)
    ELSE IF env.fault = "normalize"
    THEN Raised(env.msg, <<"preprocess", "invoke", "normalize">>)
    ELSE Value(Normalize(env.feats), <<"preprocess", "invoke", "normalize">>)

\* The with-block of embed_image, entered with the decoded image.
image_pipeline(m, p, d, st, env) ==
    IF p = None
    THEN Raised("'NoneType' object is not callable", st \o <<"preprocess">>)
    ELSE IF env.fault = "preprocess"
    THEN Raised(env.msg, st \o <<"preprocess">>)
    ELSE IF m = None
    THEN Raised("'NoneType' object has no attribute 'get_image_features'",
                st \o <<"preprocess", "invoke">>)
    ELSE IF env.fault = "invoke"
    THEN Raised(env.msg, st \o <<"preprocess", "invoke">>)
    ELSE IF env.fault = "normalize"
    THEN Raised(env.msg, st \o <<"preprocess", "invoke", "normalize">>)
    ELSE Value(Normalize(env.feats),
               st \o <<"preprocess", "invoke", "normalize">>)

\* The except clause of embed_text (lines 165-167), given what the try
\* block raised.
embed_text_except_none(r) == Escapes(<<r.msg>>, r.steps)
embed_text_except(r) ==
    HTTPException(500, <<"Embedding generation failed: ", r.msg>>, r.steps)

\* The except clauses of embed_image (lines 216-220), given what the try
\* block raised: e is the HTTPException of line 192, which is re-raised as
\* it is, or any other exception, which becomes a 500.
embed_image_except_all(e) ==
    HTTPException(500, <<"Embedding generation failed: ">> \o e.detail, e.steps)
embed_image_except(e) ==
    IF e.outcome = "HTTPException"
    THEN e
    ELSE HTTPException(500, <<"Embedding generation failed: ">> \o e.detail,
                       e.steps)

\* embed_text(request), run on the globals m, p, d.
embed_text_rejects_empty(m, p, d, text, env) ==
    IF embed_text_guard(m, p)
    THEN HTTPException(503, <<"Model not loaded">>, <<>>)
    ELSE IF text = ""
    THEN HTTPException(400, <<"Text must not be empty">>, <<>>)
    ELSE LET r == text_pipeline(m, p, d, text, env) IN
           IF r.raised
           THEN embed_text_except(r)
           ELSE Return(r.value, Len(r.value), r.steps)
embed_text_call(m, p, d, text, env) ==
    IF embed_text_guard(m, p)
    THEN HTTPException(503, <<"Model not loaded">>, <<>>)
    ELSE LET r == text_pipeline(m, p, d, text, env) IN
           IF r.raised
           THEN embed_text_except(r)
           ELSE Return(r.value, Len(r.value), r.steps)

\* embed_image(request), run on the globals m, p, d.
embed_image_call(m, p, d, image, env) ==
    IF embed_image_guard(m, p)
    THEN HTTPException(503, <<"Model not loaded">>, <<>>)
    ELSE LET dec == decode_image(image) IN
           IF dec.raised
           THEN embed_image_except(
                  HTTPException(400, <<"Invalid image data: ", dec.msg>>,
                                dec.steps))
           ELSE LET r == image_pipeline(m, p, d, dec.steps, env) IN
                  IF r.raised
                  THEN embed_image_except(Escapes(<<r.msg>>, r.steps))
                  ELSE Return(r.value, Len(r.value), r.steps)

\* health_check(): the response body.
health_check_call(m, d) ==
    [status |-> IF m # None THEN "healthy" ELSE "unhealthy",
     model_loaded |-> (m # None),
     device |-> IF d # None THEN d ELSE "unknown",
     model_name |-> ModelName]

\* The module globals after a handler has produced response r: no handler
\* declares them global, so none assigns them.
handler_globals_unload(m, p, d, r) ==
    IF r.status = 500 THEN <<None, None, d>> ELSE <<m, p, d>>
handler_globals(m, p, d, r) == <<m, p, d>>

\* A request may be dispatched: the server is serving, or the application
\* object is called directly while load_model is not executing (load_model
\* has no await, so no handler runs between two of its statements).
CanServe ==
    \/ phase = "serving"
    \/ phase = "imported" /\ lpc \in {"idle", "returned", "raised"}

Handled(rq, rs) ==
    /\ req' = rq
    /\ resp' = rs
    /\ LET g == handler_globals(model, processor, device, rs) IN
         /\ model' = g[1]
         /\ processor' = g[2]
         /\ device' = g[3]
    /\ UNCHANGED <<lpc, lstep, loadError, loads, phase>>

root ==
    /\ CanServe
    /\ Handled(PlainReq("root"), Return(<<>>, 512, <<>>))

test_page ==
    /\ CanServe
    /\ Handled(PlainReq("test"), Return(<<>>, 0, <<>>))

health_check ==
    /\ CanServe
    /\ Handled(PlainReq("health"),
               ReturnHealth(health_check_call(model, device)))

embed_text ==
    /\ CanServe
    /\ \E t \in Texts :
         \E env \in EnvsReached(embed_text_call(model, processor, device,
                                                t, QuietEnv)) :
           Handled(TextReq(t),
                   embed_text_call(model, processor, device, t, env))

embed_image ==
    /\ CanServe
    /\ \E i \in Payloads :
         \E env \in EnvsReached(embed_image_call(model, processor, device,
                                                 i, QuietEnv)) :
           Handled(ImageReq(i),
                   embed_image_call(model, processor, device, i, env))

\* -------------------------------------------------- the process (uvicorn)
\* uvicorn.run(app) runs the startup hook once; requests are served after
\* it returned, and an exception from it aborts the startup.
Startup ==
    /\ phase = "startup"
    /\ lpc = "idle"
    /\ EnterLoad
    /\ UNCHANGED <<model, processor, device, phase, req, resp>>

StartupComplete ==
    /\ phase = "startup"
    /\ lpc = "returned"
    /\ phase' = "serving"
    /\ UNCHANGED <<model, processor, device, lpc, lstep, loadError, loads,
                   req, resp>>

StartupFailed ==
    /\ phase = "startup"
    /\ lpc = "raised"
    /\ phase' = "aborted"
    /\ UNCHANGED <<model, processor, device, lpc, lstep, loadError, loads,
                   req, resp>>

Globals0 ==
    /\ model = None
    /\ processor = None
    /\ device = None
    /\ lpc = "idle"
    /\ lstep = 0
    /\ loadError = None
    /\ loads = 0
    /\ req = NoReq
    /\ resp = NoResp

Init == Globals0 /\ phase = "startup"

Next ==
    \/ Startup
    \/ load_model_step
    \/ load_model_fail
    \/ load_model_handler
    \/ StartupComplete
    \/ StartupFailed
    \/ root
    \/ health_check
    \/ embed_text
    \/ embed_image
    \/ test_page

Spec == Init /\ [][Next]_vars

\* ------------------------------------------- the bare application object
\* load_model is awaited by a caller of the module, at most MaxLoads times.
CallLoad ==
    /\ phase = "imported"
    /\ lpc \in {"idle", "returned", "raised"}
    /\ loads < MaxLoads
    /\ EnterLoad
    /\ UNCHANGED <<model, processor, device, phase, req, resp>>

InitApp == Globals0 /\ phase = "imported"

NextApp ==
    \/ CallLoad
    \/ load_model_step
    \/ load_model_fail
    \/ load_model_handler
    \/ root
    \/ health_check
    \/ embed_text
    \/ embed_image
    \/ test_page

SpecApp == InitApp /\ [][NextApp]_vars

\* ------------------------------------------------------------ properties
EmbedOps == {"embed_text", "embed_image"}
Ready == model # None /\ processor # None
InSteps(x, st) == \E k \in 1..Len(st) : st[k] = x
QuietEnvs == {e \in Envs : e.fault = "none"}
FaultEnvs == {e \in Envs : e.fault # "none"}

\* The string is base64 in the strict sense: alphabet characters only, with
\* exactly the padding its length calls for.
StrictBase64(s) ==
    /\ s.extra = "none"
    /\ s.ndata % 4 # 1
    /\ s.npad = (IF s.ndata % 4 = 0 THEN 0 ELSE 4 - (s.ndata % 4))

\* The characters of the alphabet in the string encode a complete image.
EncodesImage(s) == s.kind = "rgb" /\ (s.ndata * 3) \div 4 > 0

\* C1: while model or processor is unset, embed_text and embed_image end
\* with HTTPException 503 and perform no decoding, preprocessing or model
\* invocation, whatever the payload.
C1_NotReadyIs503 ==
    (~Ready /\ req.op \in EmbedOps) =>
        /\ resp.outcome = "HTTPException"
        /\ resp.status = 503
        /\ resp.steps = <<>>

C1_Witness ==
    /\ lpc = "raised"
    /\ processor # None
    /\ model = None
    /\ req.op = "embed_image"
    /\ decode_image(req.image).raised
    /\ resp.status = 503

\* C2: after load_model has failed, model, processor and device are all
\* still unset.
C2_NoPartialState ==
    lpc = "raised" => (model = None /\ processor = None /\ device = None)

\* C3: with the model ready, an embed_image request whose image is not
\* valid base64, or is valid base64 that does not decode to an RGB image,
\* ends with HTTPException 400 and never reaches the model.
C3_BadImageIs400 ==
    (/\ phase = "serving"
     /\ req.op = "embed_image"
     /\ (~StrictBase64(req.image) \/ ~EncodesImage(req.image))) =>
        /\ resp.outcome = "HTTPException"
        /\ resp.status = 400
        /\ ~InSteps("invoke", resp.steps)

\* C4: with the model ready, an exception in preprocessing, model
\* invocation or normalization ends embed_text, and embed_image once the
\* image decoded, with HTTPException 500 carrying the original message; a
\* 400 is answered only to a decode failure and a decode failure is never
\* answered with 500.
C4_ServerErrorsAre500 ==
    phase = "serving" =>
        /\ \A t \in Texts, env \in FaultEnvs :
             LET r == embed_text_call(model, processor, device, t, env) IN
               /\ r.outcome = "HTTPException"
               /\ r.status = 500
               /\ r.detail = <<"Embedding generation failed: ", env.msg>>
        /\ \A i \in Payloads, env \in FaultEnvs :
             LET r == embed_image_call(model, processor, device, i, env) IN
               IF decode_image(i).raised
               THEN r.outcome = "HTTPException" /\ r.status = 400
               ELSE /\ r.outcome = "HTTPException"
                    /\ r.status = 500
                    /\ r.detail = <<"Embedding generation failed: ", env.msg>>
        /\ (req.op = "embed_image" /\ decode_image(req.image).raised)
              => resp.status = 400
        /\ resp.status = 400
              => (req.op = "embed_image" /\ decode_image(req.image).raised)
        /\ (req.op \in EmbedOps /\ InSteps("preprocess", resp.steps)
              /\ resp.outcome # "return")
              => /\ resp.status = 500
                 /\ Len(resp.detail) = 2
                 /\ resp.detail[2] \in Msgs

C4_Witness ==
    /\ phase = "serving"
    /\ req.op = "embed_image"
    /\ ~decode_image(req.image).raised
    /\ InSteps("invoke", resp.steps)
    /\ resp.status = 500
    /\ resp.detail = <<"Embedding generation failed: ", "out of memory">>

\* C5: every /health response has status "healthy" iff model_loaded iff
\* the model handle is set; before the load and after a failed load it
\* reports model_loaded false and "unhealthy", after a successful load
\* model_loaded true and "healthy".
C5_HealthReflectsLoad ==
    [][(req'.op = "health" /\ <<req, resp>>' # <<req, resp>>) =>
          LET h == resp'.health IN
            /\ (h.status = "healthy") <=> h.model_loaded
            /\ (h.status = "unhealthy") <=> ~h.model_loaded
            /\ h.model_loaded <=> (model # None)
            /\ lpc \in {"idle", "raised"} => ~h.model_loaded
            /\ lpc = "returned" => h.model_loaded]_vars

\* C6: load_model runs once and has returned before any handler runs, each
\* of model, processor and device is written at most once, and no step of
\* the serving process changes them, whatever the outcome of the request.
C6_WriteOnceBeforeServing ==
    /\ [](/\ loads <= 1
          /\ req.op # "none" => (lpc = "returned" /\ loads = 1)
          /\ phase = "serving" => (lpc = "returned" /\ loads = 1 /\ Ready))
    /\ [][/\ model # None => model' = model
          /\ processor # None => processor' = processor
          /\ device # None => device' = device
          /\ phase = "serving" => UNCHANGED <<model, processor, device>>]_vars

C6_Witness ==
    /\ phase = "serving"
    /\ req.op = "embed_image"
    /\ resp.status = 500
    /\ model # None
    /\ processor # None
    /\ device # None

\* C7: a failed load is fatal and not retried: the error leaves load_model,
\* load_model is entered at most once, and once it has failed the process
\* never serves and no request is ever handled.
C7_FailedLoadIsFatal ==
    /\ [](/\ loads <= 1
          /\ loadError # None =>
               /\ lpc \in {"except", "raised"}
               /\ phase \in {"startup", "aborted"}
               /\ req = NoReq
               /\ resp = NoResp)
    /\ [][loadError # None =>
            /\ loadError' = loadError
            /\ loads' = loads
            /\ lpc' # "try"
            /\ phase' # "serving"]_vars

C7_Witness ==
    /\ loadError = "model"
    /\ lpc = "raised"
    /\ phase = "aborted"

\* C8: each call of embed_text or embed_image ends with exactly one
\* structured outcome, a returned body (200) or an HTTPException with
\* status 503, 400 or 500, and no other exception leaves the handler; after
\* a failed request the process still serves and a following valid request
\* succeeds.
C8_FailuresRecovered ==
    req.op \in EmbedOps =>
        /\ resp.outcome \in {"return", "HTTPException"}
        /\ resp.outcome = "return" => resp.status = 200
        /\ resp.outcome = "HTTPException" => resp.status \in {503, 400, 500}
        /\ resp.status # 200 =>
             /\ phase = "serving"
             /\ \A t \in Texts, env \in QuietEnvs :
                  LET r == embed_text_call(model, processor, device, t, env) IN
                    r.outcome = "return" /\ r.status = 200
             /\ \A i \in Payloads, env \in QuietEnvs :
                  ~decode_image(i).raised =>
                    LET r == embed_image_call(model, processor, device, i, env)
                    IN r.outcome = "return" /\ r.status = 200

C8_Witness ==
    /\ phase = "serving"
    /\ req.op = "embed_text"
    /\ resp.outcome = "HTTPException"
    /\ resp.status = 500

\* C9: embed_text never answers 400, for any text including the empty
\* string: it ends with 503, 500 or 200, and with the model ready and no
\* failure it returns 200 with dimensions equal to the length of the
\* embedding.
C9_TextNeverInvalid ==
    /\ req.op = "embed_text" =>
         /\ resp.status \in {503, 500, 200}
         /\ resp.status = 200 =>
              /\ resp.outcome = "return"
              /\ resp.dimensions = Len(resp.embedding)
              /\ resp.dimensions >= 1
    /\ \A t \in Texts, env \in Envs :
         LET r == embed_text_call(model, processor, device, t, env) IN
           /\ r.status # 400
           /\ (Ready /\ env.fault = "none") =>
                /\ r.status = 200
                /\ r.dimensions = Len(env.feats)
                /\ Len(r.embedding) = Len(env.feats)

C9_Witness ==
    /\ req.op = "embed_text"
    /\ req.text = ""
    /\ resp.status = 200
    /\ resp.dimensions = MaxDim
    /\ Len(resp.embedding) = MaxDim

\* C10: at every point, also inside load_model and after a failed load, a
\* set model implies a set processor and a set device, so /health reports
\* "healthy" exactly when the embedding handlers pass their readiness guard.
C10_ModelImpliesProcessor ==
    /\ model # None => (processor # None /\ device # None)
    /\ processor # None => device # None
    /\ (health_check_call(model, device).status = "healthy")
          <=> ~embed_text_guard(model, processor)
    /\ health_check_call(model, device).model_loaded
          <=> ~embed_image_guard(model, processor)
    /\ (req.op = "health" /\ resp.health.status = "healthy") => Ready

C10_Witness ==
    /\ lpc = "raised"
    /\ loadError = "eval"
    /\ model # None
    /\ processor # None
    /\ device # None
    /\ req.op = "health"
    /\ resp.health.status = "healthy"

====
